---- MODULE Spec2Model ----
(***************************************************************************)
(* A state-machine model of the ai-chatbot-api service: the provider       *)
(* factory (app/services/ai_factory.py), the Gemini adapter                *)
(* (app/services/gemini_service.py), the request schema                    *)
(* (app/api/models.py), the shared-secret check (app/api/auth.py) and the  *)
(* two chat endpoints (app/api/v1.py).                                     *)
(*                                                                         *)
(* Text is modelled as a sequence: a response text is a sequence of        *)
(* characters, an error message a sequence of words.                       *)
(***************************************************************************)
EXTENDS Integers, Sequences, FiniteSets, TLC

\* ------------------------------------------------------------------ bounds

\* Constructor invocations the factory model explores.
MaxCtorRuns == 2
\* Transport chunks per response.
MaxChunks == 2
\* Words in a transport error message handed to the adapter.
MaxErrWords == 2
\* Messages in a conversation handed to the adapter.
MaxMsgs == 2
\* HTTP requests in flight at the same time.
MaxReqs == 2

\* ------------------------------------------------------------------- text

None == "None"

\* Words an upstream error message is made of, in the spelling the SDK uses.
Words ==
    {"Rate", "limit", "quota", "API", "key", "Authentication",
     "permission", "Forbidden", "error"}

\* str.lower() on one word.
LowerWord(w) ==
    CASE w = "Rate" -> "rate"
      [] w = "API" -> "api"
      [] w = "Authentication" -> "authentication"
      [] w = "Forbidden" -> "forbidden"
      [] w = "Gemini" -> "gemini"
      [] w = "Mock" -> "mock"
      [] OTHER -> w

\* str.lower() on a message.
Lower(msg) == [i \in 1..Len(msg) |-> LowerWord(msg[i])]

\* `pat in msg`: pat occurs in msg as a contiguous run.
Contains(msg, pat) ==
    \E i \in 1..(Len(msg) - Len(pat) + 1) :
        SubSeq(msg, i, i + Len(pat) - 1) = pat

\* "".join(parts)
RECURSIVE Join(_)
Join(parts) ==
    IF parts = <<>> THEN <<>> ELSE Head(parts) \o Join(Tail(parts))

\* All sequences over S of length at most n.
SeqsUpTo(S, n) == UNION {[1..k -> S] : k \in 0..n}

\* ------------------------------------------------------------- exceptions

\* The error taxonomy of app/services/ai_service.py, with Exception above it.
ErrorKinds ==
    {"AIRateLimitError", "AIConfigurationError", "AIProviderError",
     "AIServiceError", "Exception"}

\* isinstance(raised, cls) for the classes above.
IsA(raised, cls) ==
    \/ raised = cls
    \/ cls = "Exception"
    \/ cls = "AIServiceError" /\ raised \in
          {"AIRateLimitError", "AIConfigurationError", "AIProviderError"}

\* ------------------------------------------------------------ environment

\* Values of MODEL_API_KEY: unset-to-empty, the placeholder default, a real key.
ModelApiKeys == {"", "test-model-key", "real-key"}
\* Values of MODEL_PROVIDER.
ModelProviders == {"Gemini", "openai"}
\* Provider names callers pass to the factory.
RawNames == {"gemini", "Gemini", "mock", "openai"}
\* Provider names callers register classes under.
RegNames == {"gemini", "Mock"}
\* API_KEY as config.py defaults it: one secret, no comma.
DefaultApiKey == <<"k1">>
\* Provider classes: the bundled adapter and one registered by a caller.
Classes == {"GeminiService", "MockService"}

\* What the code outside this repository does during one call: whether the
\* constructor of the SDK client (or of a registered class) returns, and
\* whether a registered class's validate_configuration returns.
SdkOutcomes == [ctor : BOOLEAN, validate : BOOLEAN]

VARIABLES
    settings,        \* app.core.config.settings, read once at start-up
    services,        \* AIServiceFactory._services: name -> class
    instance_cache,  \* AIServiceFactory._instance_cache: name -> instance id
    heap,            \* every constructor invocation so far, in order; a
                     \* provider instance is identified by its index here
    lastCall         \* the factory call a library caller made last

factoryVars == <<settings, services, instance_cache, heap, lastCall>>

VARIABLES
    conv,        \* the conversation handed to the adapter
    transport,      \* what the transport does with it
    converted,   \* result of _convert_messages(conv)
    chatOut,     \* result of chat(conv)
    streamOut,   \* result of consuming chat_stream(conv)
    validOut     \* result of validate_configuration()

adapterVars == <<conv, transport, converted, chatOut, streamOut, validOut>>

VARIABLES
    reqs,        \* the HTTP requests in flight, by slot
    env          \* what the clients send and what the provider answers:
                 \* fixed for a run, a workload the specification chooses

serverVars == <<reqs, env>>

\* ---------------------------------------------------------- Gemini adapter

\* `not settings.model_api_key or settings.model_api_key == "test-model-key"`
KeyMissing == settings.model_api_key = "" \/ settings.model_api_key = "test-model-key"

\* GeminiService.__init__ / _initialize_client: TRUE when the instance is
\* built (self.client set), FALSE when AIConfigurationError is raised.
InitializeClient(sdk) ==
    IF KeyMissing THEN FALSE ELSE sdk.ctor

\* service_class(): the registered class's constructor.
Construct(cls, sdk) ==
    IF cls = "GeminiService" THEN InitializeClient(sdk) ELSE sdk.ctor

\* A missing client is reported by returning False.
ValidateOutcome_silent(client) ==
    IF KeyMissing THEN [value |-> None, raised |-> "AIConfigurationError"]
    ELSE IF ~client THEN [value |-> "False", raised |-> None]
    ELSE [value |-> "True", raised |-> None]

\* GeminiService.validate_configuration: the value returned or the exception
\* raised (the except clause re-raises what the try block raised).
ValidateOutcome(client) ==
    IF KeyMissing THEN [value |-> None, raised |-> "AIConfigurationError"]
    ELSE IF ~client THEN [value |-> None, raised |-> "AIConfigurationError"]
    ELSE [value |-> "True", raised |-> None]

\* GeminiService.validate_configuration on a built instance: TRUE, or FALSE
\* for "raises AIConfigurationError".
GeminiValidate(client) == ValidateOutcome(client).raised = None

\* BaseAIService.validate_configuration of an instance of class cls.
validate_configuration(cls, client, sdk) ==
    IF cls = "GeminiService" THEN GeminiValidate(client) ELSE sdk.validate

\* ----------------------------------------------------------------- factory

\* Constructor invocations for name p since the cache was last cleared.
CtorRuns(p) == Cardinality({i \in 1..Len(heap) : heap[i].name = p /\ heap[i].live})

\* `provider = settings.model_provider.lower()` when no name is given, then
\* `provider = provider.lower()`.
ResolveProvider(provider) ==
    LowerWord(IF provider = None THEN LowerWord(settings.model_provider) ELSE provider)

\* The cache is never consulted.
CacheHit_never(p) == FALSE

\* `if provider in cls._instance_cache`
CacheHit(p) == p \in DOMAIN instance_cache

\* An unsupported name falls back to the bundled adapter.
LookupClass_fallback(p) ==
    IF p \in DOMAIN services THEN services[p] ELSE "GeminiService"

\* `if provider not in cls._services: raise` / `cls._services[provider]`:
\* the registered class, or None when the name is not supported.
LookupClass(p) ==
    IF p \in DOMAIN services THEN services[p] ELSE None

\* The instance is cached as soon as it is built, validated or not.
Cacheable_unvalidated(built, valid) == built

\* The try block: the instance is cached and returned when neither the
\* constructor nor validate_configuration raised.
Cacheable(built, valid) == built /\ valid

\* The instance is returned without being stored.
StoreInstance_skipped(cache, p, id) == cache

\* `cls._instance_cache[provider] = service_instance`
StoreInstance(cache, p, id) ==
    [n \in DOMAIN cache \cup {p} |-> IF n = p THEN id ELSE cache[n]]

\* A failed construction is remembered: the call after it for the same name
\* raises without running the constructor.
create_service_sticky(provider, sdk) ==
    LET p == ResolveProvider(provider)
        cls == LookupClass(p)
    IN  IF CacheHit(p)
        THEN [raised |-> None, inst |-> instance_cache[p], ran |-> FALSE,
              cache |-> instance_cache, heap |-> heap]
        ELSE IF cls = None
                \/ (lastCall.op = "create_service" /\ lastCall.ran
                    /\ lastCall.raised # None /\ ResolveProvider(lastCall.arg) = p)
        THEN [raised |-> "AIConfigurationError", inst |-> 0, ran |-> FALSE,
              cache |-> instance_cache, heap |-> heap]
        ELSE LET built == Construct(cls, sdk)
                 valid == built /\ validate_configuration(cls, built, sdk)
                 obj == [name |-> p, cls |-> cls, built |-> built,
                         validated |-> valid, live |-> TRUE]
                 id == Len(heap) + 1
             IN  IF Cacheable(built, valid)
                 THEN [raised |-> None, inst |-> id, ran |-> TRUE,
                       cache |-> StoreInstance(instance_cache, p, id),
                       heap |-> Append(heap, obj)]
                 ELSE [raised |-> "AIConfigurationError", inst |-> 0, ran |-> TRUE,
                       cache |-> instance_cache, heap |-> Append(heap, obj)]

\* AIServiceFactory.create_service(provider): the value returned or the
\* exception raised, and the factory state it leaves.
create_service(provider, sdk) ==
    LET p == ResolveProvider(provider)
        cls == LookupClass(p)
    IN  IF CacheHit(p)
        THEN [raised |-> None, inst |-> instance_cache[p], ran |-> FALSE,
              cache |-> instance_cache, heap |-> heap]
        ELSE IF cls = None
        THEN [raised |-> "AIConfigurationError", inst |-> 0, ran |-> FALSE,
              cache |-> instance_cache, heap |-> heap]
        ELSE LET built == Construct(cls, sdk)
                 valid == built /\ validate_configuration(cls, built, sdk)
                 obj == [name |-> p, cls |-> cls, built |-> built,
                         validated |-> valid, live |-> TRUE]
                 id == Len(heap) + 1
             IN  IF Cacheable(built, valid)
                 THEN [raised |-> None, inst |-> id, ran |-> TRUE,
                       cache |-> StoreInstance(instance_cache, p, id),
                       heap |-> Append(heap, obj)]
                 ELSE [raised |-> "AIConfigurationError", inst |-> 0, ran |-> TRUE,
                       cache |-> instance_cache, heap |-> Append(heap, obj)]

\* AIServiceFactory.get_default_service()
get_default_service(sdk) == create_service(None, sdk)

\* AIServiceFactory.list_providers()
list_providers == DOMAIN services

\* A library caller calls AIServiceFactory.create_service(name).
CreateService ==
    \E name \in RawNames \cup {None}, sdk \in SdkOutcomes :
        LET r == create_service(name, sdk) IN
        /\ Len(r.heap) <= MaxCtorRuns
        /\ instance_cache' = r.cache
        /\ heap' = r.heap
        /\ lastCall' = [op |-> "create_service", arg |-> name, cls |-> None,
                        raised |-> r.raised, inst |-> r.inst, ran |-> r.ran]
        /\ UNCHANGED <<settings, services, adapterVars, serverVars>>

\* The name is stored as given, not lower-cased.
RegisterService_cased ==
    \E name \in RegNames, cls \in Classes :
        /\ services' = [n \in DOMAIN services \cup {name} |->
                          IF n = name THEN cls ELSE services[n]]
        /\ lastCall' = [op |-> "register_service", arg |-> name, cls |-> cls,
                        raised |-> None, inst |-> 0, ran |-> FALSE]
        /\ UNCHANGED <<settings, instance_cache, heap, adapterVars, serverVars>>

\* Registering a name evicts the instance cached for it.
RegisterService_evicting ==
    \E name \in RegNames, cls \in Classes :
        /\ services' = [n \in DOMAIN services \cup {LowerWord(name)} |->
                          IF n = LowerWord(name) THEN cls ELSE services[n]]
        /\ instance_cache' = [n \in DOMAIN instance_cache \ {LowerWord(name)} |->
                                instance_cache[n]]
        /\ lastCall' = [op |-> "register_service", arg |-> name, cls |-> cls,
                        raised |-> None, inst |-> 0, ran |-> FALSE]
        /\ UNCHANGED <<settings, heap, adapterVars, serverVars>>

\* AIServiceFactory.register_service(name, service_class)
RegisterService ==
    \E name \in RegNames, cls \in Classes :
        /\ services' = [n \in DOMAIN services \cup {LowerWord(name)} |->
                          IF n = LowerWord(name) THEN cls ELSE services[n]]
        /\ lastCall' = [op |-> "register_service", arg |-> name, cls |-> cls,
                        raised |-> None, inst |-> 0, ran |-> FALSE]
        /\ UNCHANGED <<settings, instance_cache, heap, adapterVars, serverVars>>

\* The cached instances are kept.
ClearCache_kept ==
    /\ heap' = [i \in 1..Len(heap) |-> [heap[i] EXCEPT !.live = FALSE]]
    /\ lastCall' = [op |-> "clear_cache", arg |-> None, cls |-> None,
                    raised |-> None, inst |-> 0, ran |-> FALSE]
    /\ UNCHANGED <<settings, services, instance_cache, adapterVars, serverVars>>

\* AIServiceFactory.clear_cache()
ClearCache ==
    /\ instance_cache' = <<>>
    /\ heap' = [i \in 1..Len(heap) |-> [heap[i] EXCEPT !.live = FALSE]]
    /\ lastCall' = [op |-> "clear_cache", arg |-> None, cls |-> None,
                    raised |-> None, inst |-> 0, ran |-> FALSE]
    /\ UNCHANGED <<settings, services, adapterVars, serverVars>>

InitFactory ==
    /\ settings \in [model_provider : ModelProviders, model_api_key : ModelApiKeys,
                     api_key : {DefaultApiKey}]
    /\ services = [n \in {"gemini"} |-> "GeminiService"]
    /\ instance_cache = <<>>
    /\ heap = <<>>
    /\ lastCall = [op |-> None, arg |-> None, cls |-> None, raised |-> None,
                   inst |-> 0, ran |-> FALSE]

NextFactory == CreateService \/ RegisterService \/ ClearCache

\* ------------------------------------------------- adapter: pure functions

\* Roles a message object can carry; the schema admits the first three.
KnownRoles == {"system", "user", "assistant"}
AnyRoles == KnownRoles \cup {"tool"}

\* Characters response texts and message contents are made of.
Chars == {"a", "b"}
\* A transport chunk's content: empty, or one of two distinct texts.
ChunkTexts == {<<>>, <<"a">>, <<"b">>}

\* GeminiService._convert_messages, one message.
ConvertOne(message) ==
    IF message.role = "system"
    THEN [type |-> "SystemMessage", content |-> message.content]
    ELSE IF message.role = "user"
    THEN [type |-> "HumanMessage", content |-> message.content]
    ELSE IF message.role = "assistant"
    THEN [type |-> "AIMessage", content |-> message.content]
    ELSE [type |-> "HumanMessage", content |-> message.content]

\* The list is built back to front.
convert_messages_reversed(messages) ==
    [i \in 1..Len(messages) |-> ConvertOne(messages[Len(messages) + 1 - i])]

\* GeminiService._convert_messages
convert_messages(messages) ==
    [i \in 1..Len(messages) |-> ConvertOne(messages[i])]

\* The message is matched as spelled, without lower-casing it.
ChatClassify_cased(e) ==
    IF Contains(e, <<"rate", "limit">>) \/ Contains(e, <<"quota">>)
    THEN "AIRateLimitError"
    ELSE IF Contains(e, <<"api", "key">>) \/ Contains(e, <<"authentication">>)
    THEN "AIConfigurationError"
    ELSE IF Contains(e, <<"permission">>) \/ Contains(e, <<"forbidden">>)
    THEN "AIConfigurationError"
    ELSE "AIProviderError"

\* The except block of GeminiService.chat: the error raised for a transport
\* exception whose str() is e.
ChatClassify(e) ==
    LET error_msg == Lower(e) IN
    IF Contains(error_msg, <<"rate", "limit">>) \/ Contains(error_msg, <<"quota">>)
    THEN "AIRateLimitError"
    ELSE IF Contains(error_msg, <<"api", "key">>)
            \/ Contains(error_msg, <<"authentication">>)
    THEN "AIConfigurationError"
    ELSE IF Contains(error_msg, <<"permission">>)
            \/ Contains(error_msg, <<"forbidden">>)
    THEN "AIConfigurationError"
    ELSE "AIProviderError"

\* The key/authentication test comes before the rate-limit test.
StreamClassify_keyFirst(e) ==
    LET error_msg == Lower(e) IN
    IF Contains(error_msg, <<"api", "key">>)
       \/ Contains(error_msg, <<"authentication">>)
    THEN "AIConfigurationError"
    ELSE IF Contains(error_msg, <<"rate", "limit">>) \/ Contains(error_msg, <<"quota">>)
    THEN "AIRateLimitError"
    ELSE IF Contains(error_msg, <<"permission">>)
            \/ Contains(error_msg, <<"forbidden">>)
    THEN "AIConfigurationError"
    ELSE "AIProviderError"

\* The except block of GeminiService.chat_stream.
StreamClassify(e) ==
    LET error_msg == Lower(e) IN
    IF Contains(error_msg, <<"rate", "limit">>) \/ Contains(error_msg, <<"quota">>)
    THEN "AIRateLimitError"
    ELSE IF Contains(error_msg, <<"api", "key">>)
            \/ Contains(error_msg, <<"authentication">>)
    THEN "AIConfigurationError"
    ELSE IF Contains(error_msg, <<"permission">>)
            \/ Contains(error_msg, <<"forbidden">>)
    THEN "AIConfigurationError"
    ELSE "AIProviderError"

\* The message of the error chat and chat_stream raise for a transport
\* exception whose str() is e: a prefix naming the branch, then str(e).
GeminiErrorText(e) ==
    LET error_msg == Lower(e) IN
    IF Contains(error_msg, <<"rate", "limit">>) \/ Contains(error_msg, <<"quota">>)
    THEN <<"Gemini rate limit exceeded:">> \o e
    ELSE IF Contains(error_msg, <<"api", "key">>)
            \/ Contains(error_msg, <<"authentication">>)
    THEN <<"Gemini authentication error:">> \o e
    ELSE IF Contains(error_msg, <<"permission">>)
            \/ Contains(error_msg, <<"forbidden">>)
    THEN <<"Gemini permission error:">> \o e
    ELSE <<"Gemini provider error:">> \o e

\* `raise AIConfigurationError("Gemini client not initialized")`
ClientMissingText == <<"Gemini client not initialized">>

\* What the transport does with one request: the chunks its answer arrives
\* in and, when it fails, the message of the exception it raises (after the
\* chunks, for a streamed call).
\* client.ainvoke delivers the answer whole, client.astream chunk by chunk.
ainvoke(script) == Join(script.chunks)

astream(script) == script.chunks

\* The transport's exception leaves chat as it came.
chat_unwrapped(client, messages, script) ==
    IF ~client
    THEN [raised |-> "AIConfigurationError", sent |-> <<>>, value |-> <<>>]
    ELSE IF script.ok
    THEN [raised |-> None, sent |-> convert_messages(messages),
          value |-> ainvoke(script)]
    ELSE [raised |-> "Exception", sent |-> convert_messages(messages),
          value |-> <<>>]

\* GeminiService.chat on an instance whose client is set (client = TRUE)
\* or not: the string returned, or the error raised.
chat(client, messages, script) ==
    IF ~client
    THEN [raised |-> "AIConfigurationError", sent |-> <<>>, value |-> <<>>]
    ELSE LET langchain_messages == convert_messages(messages) IN
         IF script.ok
         THEN [raised |-> None, sent |-> langchain_messages,
               value |-> ainvoke(script)]
         ELSE [raised |-> ChatClassify(script.err), sent |-> langchain_messages,
               value |-> <<>>]

\* The emptiness test is inverted: only empty chunks are yielded.
StreamYield_inverted(content) ==
    IF content = <<>> THEN <<content>> ELSE <<>>

\* `if chunk.content: yield chunk.content`: what one transport chunk adds to
\* the fragments chat_stream yields.
StreamYield(content) ==
    IF content # <<>> THEN <<content>> ELSE <<>>

\* The fragments chat_stream yields for the chunks, in order.
RECURSIVE StreamFragments(_)
StreamFragments(chunks) ==
    IF chunks = <<>> THEN <<>>
    ELSE StreamYield(Head(chunks)) \o StreamFragments(Tail(chunks))

\* The loop is left after the first chunk.
chat_stream_truncated(client, messages, script) ==
    IF ~client
    THEN [raised |-> "AIConfigurationError", sent |-> <<>>, frags |-> <<>>]
    ELSE [raised |-> IF script.ok THEN None ELSE StreamClassify(script.err),
          sent |-> convert_messages(messages),
          frags |-> StreamFragments(SubSeq(astream(script), 1, 1))]

\* GeminiService.chat_stream consumed to its end: the fragments yielded and
\* the error that ended the sequence, if any.
chat_stream(client, messages, script) ==
    IF ~client
    THEN [raised |-> "AIConfigurationError", sent |-> <<>>, frags |-> <<>>]
    ELSE LET langchain_messages == convert_messages(messages) IN
         [raised |-> IF script.ok THEN None ELSE StreamClassify(script.err),
          sent |-> langchain_messages,
          frags |-> StreamFragments(astream(script))]

\* ------------------------------------------ adapter called as a library

\* Message objects a caller can hand to the adapter (no schema in between).
Messages == [role : AnyRoles, content : {<<"a">>, <<"b">>}]
Conversations == SeqsUpTo(Messages, MaxMsgs)

\* Upstream error messages: str(e) of the exception the transport raises.
ErrTexts == SeqsUpTo(Words, MaxErrWords)

\* Transport behaviours: a successful answer, or a failure.
Scripts ==
    {s \in [chunks : SeqsUpTo(ChunkTexts, MaxChunks), ok : BOOLEAN, err : ErrTexts] :
        s.ok => s.err = <<>>}

PlainConversation == <<[role |-> "user", content |-> <<"a">>]>>
PlainScript == [chunks |-> <<<<"a">>, <<"b">>>>, ok |-> TRUE, err |-> <<>>]

NotCalled == [called |-> FALSE]


\* A direct call of GeminiService._convert_messages.
CallConvert ==
    /\ converted = NotCalled
    /\ converted' = [called |-> TRUE, value |-> convert_messages(conv)]
    /\ UNCHANGED <<conv, transport, chatOut, streamOut, validOut, factoryVars, serverVars>>

\* A direct call of GeminiService.chat on a constructed instance.
CallChat ==
    /\ chatOut = NotCalled
    /\ chatOut' = [called |-> TRUE] @@ chat(TRUE, conv, transport)
    /\ UNCHANGED <<conv, transport, converted, streamOut, validOut, factoryVars, serverVars>>

\* A direct call of GeminiService.chat_stream, consumed to its end.
CallChatStream ==
    /\ streamOut = NotCalled
    /\ streamOut' = [called |-> TRUE] @@ chat_stream(TRUE, conv, transport)
    /\ UNCHANGED <<conv, transport, converted, chatOut, validOut, factoryVars, serverVars>>

\* A direct call of GeminiService.validate_configuration on an instance
\* whose client is set or has been reset.
CallValidate ==
    /\ validOut = NotCalled
    /\ \E client \in BOOLEAN :
          validOut' = [called |-> TRUE, client |-> client] @@ ValidateOutcome(client)
    /\ UNCHANGED <<conv, transport, converted, chatOut, streamOut, factoryVars, serverVars>>

InitAdapter ==
    /\ \/ conv \in Conversations /\ transport = PlainScript
       \/ conv = PlainConversation /\ transport \in Scripts
    /\ converted = NotCalled
    /\ chatOut = NotCalled
    /\ streamOut = NotCalled
    /\ validOut = NotCalled

NextAdapter == CallConvert \/ CallChat \/ CallChatStream \/ CallValidate

\* ------------------------------------------------------------ HTTP surface

\* Request slots: one per request that can be in flight at a time.
Reqs == DOMAIN reqs

\* ChatRequest.messages max_length and Message.content max_length.
MaxHistoryLength == 50
MaxContentLength == 10000

\* The role is not constrained.
ValidMessage_anyrole(m) ==
    /\ Len(m.content) >= 1
    /\ Len(m.content) <= MaxContentLength

\* Message.role is Literal["system", "user", "assistant"], content has
\* min_length 1 and max_length 10000.
ValidMessage(m) ==
    /\ m.role \in KnownRoles
    /\ Len(m.content) >= 1
    /\ Len(m.content) <= MaxContentLength

\* The number of messages is not constrained.
ValidChatRequest_anylength(body) ==
    \A i \in 1..Len(body) : ValidMessage(body[i])

\* ChatRequest: 1..50 valid messages.
ValidChatRequest(body) ==
    /\ Len(body) >= 1
    /\ Len(body) <= MaxHistoryLength
    /\ \A i \in 1..Len(body) : ValidMessage(body[i])

UserMsg(c) == [role |-> "user", content |-> c]

PlainBody == <<[role |-> "system", content |-> <<"a">>], UserMsg(<<"b">>)>>

\* Request bodies clients send.
Bodies ==
    { <<>>,
      <<[role |-> "system", content |-> <<"a">>], UserMsg(<<"b">>)>>,
      <<UserMsg(<<"a">>), [role |-> "tool", content |-> <<"b">>]>>,
      <<UserMsg(<<>>)>>,
      [i \in 1..MaxHistoryLength |-> UserMsg(<<"a">>)],
      [i \in 1..(MaxHistoryLength + 1) |-> UserMsg(<<"a">>)] }

\* X-API-Key header values clients send; <<>> is a missing header.
Headers == {<<>>, <<"k1">>, <<"k2">>, <<"k3">>}

\* API_KEY settings of a deployment.
ApiKeySettings == {<<"k1">>, <<"k1", ",", " ", "k2">>}

\* str.split(",")
RECURSIVE Split(_)
Split(str) ==
    IF \A i \in 1..Len(str) : str[i] # ","
    THEN <<str>>
    ELSE LET i == CHOOSE k \in 1..Len(str) :
                      str[k] = "," /\ \A j \in 1..(k - 1) : str[j] # ","
         IN  <<SubSeq(str, 1, i - 1)>> \o Split(SubSeq(str, i + 1, Len(str)))

\* str.strip()
RECURSIVE Strip(_)
Strip(str) ==
    IF str # <<>> /\ Head(str) = " " THEN Strip(Tail(str))
    ELSE IF str # <<>> /\ str[Len(str)] = " " THEN Strip(SubSeq(str, 1, Len(str) - 1))
    ELSE str

NonEmpty(str) == str # <<>>

\* The setting is taken as one secret, commas included.
get_valid_api_keys_whole == <<settings.api_key>>

\* APIKeyHeader._get_valid_api_keys
get_valid_api_keys ==
    IF Contains(settings.api_key, <<",">>)
    THEN LET parts == Split(settings.api_key) IN
         SelectSeq([i \in 1..Len(parts) |-> Strip(parts[i])], NonEmpty)
    ELSE <<settings.api_key>>

\* APIKeyHeader.__call__: 0 when the key is accepted, else the status of the
\* HTTPException raised.
get_api_key(header) ==
    IF header = <<>> THEN 401
    ELSE IF \A i \in 1..Len(get_valid_api_keys) : get_valid_api_keys[i] # header
    THEN 403
    ELSE 0

\* The clause for the base class AIServiceError comes first.
ChatStatus_baseFirst(raised) ==
    IF IsA(raised, "AIServiceError") THEN 500
    ELSE IF IsA(raised, "AIRateLimitError") THEN 429
    ELSE IF IsA(raised, "AIConfigurationError") THEN 500
    ELSE IF IsA(raised, "AIProviderError") THEN 502
    ELSE 500

\* The except clauses of the chat endpoint, in order: the status of the
\* HTTPException raised for an exception of class raised.
ChatStatus(raised) ==
    IF IsA(raised, "AIRateLimitError") THEN 429
    ELSE IF IsA(raised, "AIConfigurationError") THEN 500
    ELSE IF IsA(raised, "AIProviderError") THEN 502
    ELSE IF IsA(raised, "AIServiceError") THEN 500
    ELSE 500

\* The last clause passes the exception's message on.
ChatDetail_leaky(raised, msg) ==
    IF IsA(raised, "AIRateLimitError") THEN <<"Rate limit exceeded:">> \o msg
    ELSE IF IsA(raised, "AIConfigurationError") THEN <<"AI service configuration error">>
    ELSE IF IsA(raised, "AIProviderError") THEN <<"AI provider error:">> \o msg
    ELSE IF IsA(raised, "AIServiceError") THEN <<"AI service error:">> \o msg
    ELSE <<"Internal server error:">> \o msg

\* The except clauses of the chat endpoint, in order: the detail of the
\* HTTPException raised for an exception of class raised with str() msg.
ChatDetail(raised, msg) ==
    IF IsA(raised, "AIRateLimitError") THEN <<"Rate limit exceeded:">> \o msg
    ELSE IF IsA(raised, "AIConfigurationError") THEN <<"AI service configuration error">>
    ELSE IF IsA(raised, "AIProviderError") THEN <<"AI provider error:">> \o msg
    ELSE IF IsA(raised, "AIServiceError") THEN <<"AI service error:">> \o msg
    ELSE <<"Internal server error">>

\* The except clauses of generate_response, in order: the event yielded for
\* an exception of class raised with str() msg.
StreamErrorEvent(raised, msg) ==
    IF IsA(raised, "AIRateLimitError")
    THEN [event |-> "error", data |-> <<"Rate limit exceeded:">> \o msg]
    ELSE IF IsA(raised, "AIConfigurationError")
    THEN [event |-> "error", data |-> <<"AI service configuration error">>]
    ELSE IF IsA(raised, "AIProviderError")
    THEN [event |-> "error", data |-> <<"AI provider error:">> \o msg]
    ELSE IF IsA(raised, "AIServiceError")
    THEN [event |-> "error", data |-> <<"AI service error:">> \o msg]
    ELSE [event |-> "error", data |-> <<"Internal server error">>]

\* The event carries no text.
DataEvent_blank(chunk) == [event |-> "data", data |-> <<>>]

\* `yield f"data: {chunk}\n\n"`
DataEvent(chunk) == [event |-> "data", data |-> chunk]

\* Requests clients send.
Requests == [header : Headers, body : Bodies]

\* Upstream error messages the deployed service meets.
SampleErrTexts ==
    { <<"Rate", "limit">>, <<"API", "key">>, <<"permission">>, <<"error">> }

\* The full workload, and a light one: well-formed authenticated requests,
\* one unclassified upstream error, streamed answers of one chunk.
FullWorkload ==
    [requests |-> Requests, chunks |-> ChunkTexts, errs |-> SampleErrTexts,
     kinds |-> ErrorKinds, streamed |-> MaxChunks]

LightWorkload ==
    [requests |-> {[header |-> <<"k1">>, body |-> PlainBody]},
     chunks |-> {<<"a">>}, errs |-> {<<"error">>}, kinds |-> {"AIServiceError"},
     streamed |-> 1]

IdleReq ==
    [pc |-> "idle", endpoint |-> None, header |-> <<>>, body |-> <<>>,
     status |-> 0, svc |-> 0, raised |-> None, sent |-> <<>>,
     content |-> <<>>, frags |-> <<>>, events |-> <<>>, n |-> 0,
     ran |-> FALSE, early |-> FALSE, msg |-> <<>>, detail |-> <<>>]


\* What a provider class other than the bundled adapter may do in chat or
\* chat_stream: return text or raise anything, with any message.
OtherOutcomes ==
    {o \in [raised : env.kinds \cup {None}, value : {<<>>} \cup env.chunks,
            msg : env.errs \cup {<<>>}] :
        /\ o.raised # None => o.value = <<>> /\ o.msg # <<>>
        /\ o.raised = None => o.msg = <<>>}

\* The message of the AIConfigurationError a failed factory call f raised:
\* the name is not supported, or construction or validation failed.
FactoryErrorText(f) ==
    IF f.ran THEN <<"Failed to create service:">> ELSE <<"Unsupported AI provider:">>

\* Transport behaviours the deployed service meets on a blocking call: an
\* answer with no text or with one chunk of text, or a failure.
ServerScripts ==
    {t \in [chunks : SeqsUpTo(env.chunks, 1), ok : BOOLEAN,
            err : env.errs \cup {<<>>}] :
        /\ t.ok => t.err = <<>>
        /\ ~t.ok => t.chunks = <<>> /\ t.err # <<>>}

\* The key is not asked for: only the body is validated.
Admit_open(header, body) ==
    IF ~ValidChatRequest(body) THEN 422 ELSE 0

\* The framework's work before the endpoint function runs: the get_api_key
\* dependency, then validation of the body against ChatRequest. 0: passed.
Admit(header, body) ==
    IF get_api_key(header) # 0 THEN get_api_key(header)
    ELSE IF ~ValidChatRequest(body) THEN 422
    ELSE 0

\* A request as it arrives.
Arrived(endpoint, header, body) ==
    [IdleReq EXCEPT !.endpoint = endpoint, !.header = header, !.body = body]

\* Request r has made its factory call, with result f, and is now req.
\* Bookkeeping: ran records that the call ran the constructor, early marks
\* the requests that were waiting to make their own call when it did.
AfterFactoryCall(r, f, req) ==
    [x \in DOMAIN reqs |->
        IF x = r THEN [req EXCEPT !.ran = f.ran]
        ELSE IF f.ran /\ reqs[x].pc = "accepted" THEN [reqs[x] EXCEPT !.early = TRUE]
        ELSE reqs[x]]

\* POST /api/v1/chat arrives: authentication, schema validation, then the
\* endpoint function up to its await of ai_service.chat.
ReceiveChat(r) ==
    /\ reqs[r].pc = "idle"
    /\ \E q \in env.requests, sdk \in SdkOutcomes :
        LET header == q.header
            body == q.body
            req == Arrived("chat", header, body)
            f == get_default_service(sdk)
        IN  IF Admit(header, body) # 0
            THEN /\ reqs' = [reqs EXCEPT ![r] =
                        [req EXCEPT !.pc = "done", !.status = Admit(header, body)]]
                 /\ UNCHANGED <<instance_cache, heap>>
            ELSE /\ Len(f.heap) <= MaxCtorRuns
                 /\ instance_cache' = f.cache
                 /\ heap' = f.heap
                 /\ IF f.raised # None
                    THEN reqs' = AfterFactoryCall(r, f,
                            [req EXCEPT !.pc = "done", !.raised = f.raised,
                                        !.msg = FactoryErrorText(f),
                                        !.status = ChatStatus(f.raised),
                                        !.detail = ChatDetail(f.raised, FactoryErrorText(f))])
                    ELSE IF f.heap[f.inst].cls = "GeminiService"
                            /\ chat(f.heap[f.inst].built, body, PlainScript).raised # None
                    THEN reqs' = AfterFactoryCall(r, f,
                            [req EXCEPT !.pc = "done", !.svc = f.inst,
                                        !.raised = "AIConfigurationError",
                                        !.msg = ClientMissingText,
                                        !.status = ChatStatus("AIConfigurationError"),
                                        !.detail = ChatDetail("AIConfigurationError",
                                                              ClientMissingText)])
                    ELSE reqs' = AfterFactoryCall(r, f,
                            [req EXCEPT !.pc = "awaiting", !.svc = f.inst,
                                        !.sent = convert_messages(body)])
    /\ UNCHANGED <<settings, services, lastCall, adapterVars, env>>

\* The awaited ai_service.chat call completes; the endpoint function
\* returns ChatResponse or raises HTTPException.
ChatReturn(r) ==
    /\ reqs[r].pc = "awaiting"
    /\ \E t \in ServerScripts, o \in OtherOutcomes :
        LET inst == heap[reqs[r].svc]
            out == IF inst.cls = "GeminiService"
                   THEN chat(inst.built, reqs[r].body, t)
                   ELSE o
            msg == IF inst.cls = "GeminiService" THEN GeminiErrorText(t.err) ELSE o.msg
        IN  reqs' = [reqs EXCEPT ![r] =
                IF out.raised = None
                THEN [@ EXCEPT !.pc = "done", !.status = 200, !.content = out.value]
                ELSE [@ EXCEPT !.pc = "done", !.raised = out.raised, !.msg = msg,
                               !.status = ChatStatus(out.raised),
                               !.detail = ChatDetail(out.raised, msg)]]
    /\ UNCHANGED <<factoryVars, adapterVars, env>>

\* POST /api/v1/chat/stream arrives: authentication, schema validation, then
\* the endpoint function returns the StreamingResponse.
ReceiveStream(r) ==
    /\ reqs[r].pc = "idle"
    /\ \E q \in env.requests :
        LET req == Arrived("stream", q.header, q.body) IN
        reqs' = [reqs EXCEPT ![r] =
            IF Admit(q.header, q.body) # 0
            THEN [req EXCEPT !.pc = "done", !.status = Admit(q.header, q.body)]
            ELSE [req EXCEPT !.pc = "accepted", !.status = 200]]
    /\ UNCHANGED <<factoryVars, adapterVars, env>>

\* generate_response starts: the factory call, then chat_stream up to its
\* first await on the transport.
StreamStart(r) ==
    /\ reqs[r].pc = "accepted"
    /\ \E sdk \in SdkOutcomes :
        LET f == get_default_service(sdk) IN
        /\ Len(f.heap) <= MaxCtorRuns
        /\ instance_cache' = f.cache
        /\ heap' = f.heap
        /\ IF f.raised # None
           THEN reqs' = AfterFactoryCall(r, f,
                   [reqs[r] EXCEPT !.pc = "done", !.raised = f.raised,
                                   !.msg = FactoryErrorText(f),
                                   !.events = <<StreamErrorEvent(f.raised,
                                                                 FactoryErrorText(f))>>])
           ELSE IF f.heap[f.inst].cls = "GeminiService"
                   /\ chat_stream(f.heap[f.inst].built, reqs[r].body, PlainScript).raised # None
           THEN reqs' = AfterFactoryCall(r, f,
                   [reqs[r] EXCEPT !.pc = "done", !.svc = f.inst,
                                   !.raised = "AIConfigurationError",
                                   !.msg = ClientMissingText,
                                   !.events = <<StreamErrorEvent("AIConfigurationError",
                                                                 ClientMissingText)>>])
           ELSE reqs' = AfterFactoryCall(r, f,
                   [reqs[r] EXCEPT !.pc = "streaming", !.svc = f.inst,
                                   !.sent = convert_messages(reqs[r].body)])
    /\ UNCHANGED <<settings, services, lastCall, adapterVars, env>>

\* The transport delivers one more chunk; chat_stream yields it when it is
\* not empty and generate_response forwards what chat_stream yields.
StreamChunk(r) ==
    /\ reqs[r].pc = "streaming"
    /\ reqs[r].n < env.streamed
    /\ \E c \in env.chunks :
        LET inst == heap[reqs[r].svc]
            yielded == IF inst.cls = "GeminiService" THEN StreamYield(c) ELSE <<c>>
        IN  reqs' = [reqs EXCEPT ![r] =
                [@ EXCEPT !.n = @ + 1,
                          !.frags = @ \o yielded,
                          !.events = @ \o [i \in 1..Len(yielded) |-> DataEvent(yielded[i])]]]
    /\ UNCHANGED <<factoryVars, adapterVars, env>>

\* The transport raises in the middle of the stream; chat_stream raises the
\* classified error and generate_response yields one error event and ends.
StreamFail(r) ==
    /\ reqs[r].pc = "streaming"
    /\ \E e \in env.errs, k \in env.kinds :
        LET inst == heap[reqs[r].svc]
            raised == IF inst.cls = "GeminiService" THEN StreamClassify(e) ELSE k
            msg == IF inst.cls = "GeminiService" THEN GeminiErrorText(e) ELSE e
        IN  reqs' = [reqs EXCEPT ![r] =
                [@ EXCEPT !.pc = "done", !.raised = raised, !.msg = msg,
                          !.events = @ \o <<StreamErrorEvent(raised, msg)>>]]
    /\ UNCHANGED <<factoryVars, adapterVars, env>>

\* The transport's sequence ends; chat_stream and generate_response return.
StreamEnd(r) ==
    /\ reqs[r].pc = "streaming"
    /\ reqs' = [reqs EXCEPT ![r] = [@ EXCEPT !.pc = "done"]]
    /\ UNCHANGED <<factoryVars, adapterVars, env>>

\* The health route asks for the API key like the chat routes.
HealthAdmit_keyed(header) == get_api_key(header)

\* The framework's work before health_check runs: the route declares no
\* dependency and takes no body. 0: passed.
HealthAdmit(header) == 0

\* GET /api/v1/health arrives and health_check returns HealthResponse.
Health(r) ==
    /\ reqs[r].pc = "idle"
    /\ \E q \in env.requests :
        LET req == Arrived("health", q.header, <<>>) IN
        reqs' = [reqs EXCEPT ![r] =
            IF HealthAdmit(q.header) # 0
            THEN [req EXCEPT !.pc = "done", !.status = HealthAdmit(q.header)]
            ELSE [req EXCEPT !.pc = "done", !.status = 200,
                             !.content = <<"healthy">>]]
    /\ UNCHANGED <<factoryVars, adapterVars, env>>

\* The response has been delivered; the slot takes the next request.
Complete(r) ==
    /\ reqs[r].pc = "done"
    /\ reqs' = [reqs EXCEPT ![r] = IdleReq]
    /\ UNCHANGED <<factoryVars, adapterVars, env>>

\* Deployments: the environment and the registry the process starts with
\* (the last one has an extension provider registered at import time).
Deployments ==
    { [provider |-> "Gemini", key |-> "real-key", extension |-> FALSE,
        secrets |-> <<"k1">>],
      [provider |-> "Gemini", key |-> "test-model-key", extension |-> FALSE,
        secrets |-> <<"k1">>],
      [provider |-> "Gemini", key |-> "", extension |-> FALSE,
        secrets |-> <<"k1">>],
      [provider |-> "openai", key |-> "real-key", extension |-> FALSE,
        secrets |-> <<"k1">>],
      [provider |-> "Gemini", key |-> "real-key", extension |-> FALSE,
        secrets |-> <<"k1", ",", " ", "k2">>],
      [provider |-> "Mock", key |-> "real-key", extension |-> TRUE,
        secrets |-> <<"k1">>] }

\* The deployments the concurrent specification starts from: a usable
\* credential, the placeholder credential, an extension provider.
LightDeployments ==
    {d \in Deployments : d.secrets = <<"k1">> /\ d.key # "" /\ d.provider # "openai"}

InitServer(deployments) ==
    /\ \E d \in deployments :
        /\ settings = [model_provider |-> d.provider, model_api_key |-> d.key,
                       api_key |-> d.secrets]
        /\ services = IF d.extension
                      THEN [n \in {"gemini", "mock"} |->
                              IF n = "gemini" THEN "GeminiService" ELSE "MockService"]
                      ELSE [n \in {"gemini"} |-> "GeminiService"]
    /\ instance_cache = <<>>
    /\ heap = <<>>
    /\ lastCall = [op |-> None, arg |-> None, cls |-> None, raised |-> None,
                   inst |-> 0, ran |-> FALSE]

NextServer ==
    \E r \in Reqs :
        \/ ReceiveChat(r)
        \/ ChatReturn(r)
        \/ ReceiveStream(r)
        \/ StreamStart(r)
        \/ StreamChunk(r)
        \/ StreamFail(r)
        \/ StreamEnd(r)
        \/ Health(r)
        \/ Complete(r)

\* ----------------------------------------------------------- specifications

vars == <<factoryVars, adapterVars, serverVars>>

\* No HTTP request is in flight, none arrives.
ServerIdle ==
    /\ reqs = [r \in {1} |-> IdleReq]
    /\ env = [requests |-> {}, chunks |-> {}, errs |-> {}, kinds |-> {},
              streamed |-> 0]

\* The adapter untouched: no direct call is in progress.
AdapterIdle ==
    /\ conv = PlainConversation
    /\ transport = PlainScript
    /\ converted = NotCalled
    /\ chatOut = NotCalled
    /\ streamOut = NotCalled
    /\ validOut = NotCalled

\* The factory as the module import leaves it, with a usable credential.
FactoryIdle ==
    /\ InitFactory
    /\ settings = [model_provider |-> "Gemini", model_api_key |-> "real-key",
                   api_key |-> DefaultApiKey]

InitFactoryLib == InitFactory /\ AdapterIdle /\ ServerIdle

\* The adapter's own calls are made with a usable credential; the
\* credential varies for the configuration check, on the plain conversation.
InitAdapterLib ==
    /\ InitFactory
    /\ settings.model_provider = "Gemini"
    /\ InitAdapter
    /\ ServerIdle
    /\ settings.model_api_key # "real-key" =>
          conv = PlainConversation /\ transport = PlainScript

\* The factory used as a library: create_service, register_service and
\* clear_cache called in any order.
SpecFactory == InitFactoryLib /\ [][NextFactory]_vars

\* The adapter used as a library on one conversation and one transport
\* behaviour.
SpecAdapter == InitAdapterLib /\ [][NextAdapter]_vars

\* The deployed service: requests arrive on the two chat endpoints and run
\* as tasks of one event loop, each action being the code between two awaits.
\* MaxReqs well-formed requests at a time.
Init ==
    /\ InitServer(LightDeployments)
    /\ AdapterIdle
    /\ reqs = [r \in 1..MaxReqs |-> IdleReq]
    /\ env = LightWorkload

Next == NextServer

Spec == Init /\ [][Next]_vars

\* The deployed service taking one request at a time, over the full range
\* of requests and provider answers.
InitGateway ==
    /\ InitServer(Deployments)
    /\ AdapterIdle
    /\ reqs = [r \in {1} |-> IdleReq]
    /\ env = FullWorkload

SpecGateway == InitGateway /\ [][Next]_vars


\* ------------------------------------------------------------------ claims

\* Constructor invocations for name p since the last clear_cache that built
\* an instance and saw its validation pass.
LiveValid(p) ==
    {i \in 1..Len(heap) : heap[i].name = p /\ heap[i].live /\ heap[i].validated}

FactoryNames == {"gemini", "mock", "openai"}

\* The last factory call was create_service and it returned an instance.
Returned == lastCall.op = "create_service" /\ lastCall.raised = None

\* The last factory call was create_service and it raised.
Raised == lastCall.op = "create_service" /\ lastCall.raised # None

\* C1 as stated: for every provider name the constructor runs at most once
\* between two clear_cache calls, whatever create_service calls are made.
C1_CtorAtMostOnce == \A p \in FactoryNames : CtorRuns(p) <= 1

\* C1, amended: between two clear_cache calls every create_service call that
\* returns for a name returns the one instance cached for it, and that is the
\* only instance built and validated for the name in that period: once a
\* construction has succeeded the constructor is not run again for the name
\* (constructions that failed before it may have been repeated).
C1_SameInstance ==
    /\ \A p \in FactoryNames :
          /\ Cardinality(LiveValid(p)) <= 1
          /\ \A i \in LiveValid(p) :
                /\ p \in DOMAIN instance_cache /\ instance_cache[p] = i
                /\ \A j \in 1..Len(heap) : heap[j].name = p /\ heap[j].live => j <= i
    /\ Returned => LiveValid(ResolveProvider(lastCall.arg)) = {lastCall.inst}

\* C1 witness: a create_service call returned the cached instance without
\* running the constructor, after an earlier construction for the same name
\* had failed.
C1_Witness ==
    /\ Returned
    /\ ~lastCall.ran
    /\ CtorRuns(ResolveProvider(lastCall.arg)) = 2

\* C2: every cached instance, and every instance create_service returns, was
\* built and had validate_configuration succeed; when create_service raises,
\* it raises AIConfigurationError and the name has no cached instance.
C2_ValidatedBeforeUse ==
    /\ \A p \in DOMAIN instance_cache :
          /\ instance_cache[p] \in 1..Len(heap)
          /\ heap[instance_cache[p]].built
          /\ heap[instance_cache[p]].validated
          /\ heap[instance_cache[p]].name = p
    /\ Returned => /\ lastCall.inst \in 1..Len(heap)
                   /\ heap[lastCall.inst].built
                   /\ heap[lastCall.inst].validated
    /\ Raised => /\ lastCall.raised = "AIConfigurationError"
                 /\ lastCall.inst = 0
                 /\ ResolveProvider(lastCall.arg) \notin DOMAIN instance_cache

\* C2 witness: the constructor returned an instance, its validation failed,
\* create_service raised and nothing is cached for the name.
C2_Witness ==
    /\ Raised
    /\ lastCall.ran
    /\ heap[Len(heap)].built
    /\ ~heap[Len(heap)].validated
    /\ ResolveProvider(lastCall.arg) \notin DOMAIN instance_cache

\* C4: a create_service call whose name (lower-cased, as the factory compares
\* it) is not in the registry raises AIConfigurationError, runs no
\* constructor and leaves the registry and the instance cache as they were.
C4_UnsupportedFails ==
    [][ (lastCall'.op = "create_service"
         /\ ResolveProvider(lastCall'.arg) \notin list_providers)
        => /\ lastCall'.raised = "AIConfigurationError"
           /\ ~lastCall'.ran
           /\ heap' = heap
           /\ services' = services
           /\ instance_cache' = instance_cache ]_vars

\* C4 witness: create_service was called with an unregistered name while
\* another name had an instance cached.
C4_Witness ==
    /\ lastCall.op = "create_service"
    /\ ResolveProvider(lastCall.arg) \notin list_providers
    /\ instance_cache # <<>>


\* C3 as stated: when requests wait together on the same uncached provider
\* name, the constructor runs for at most one of them: a request that was
\* waiting while another one's factory call ran the constructor does not
\* run it again.
C3_OneCtorAmongConcurrent ==
    \A a \in Reqs : ~(reqs[a].early /\ reqs[a].ran)

\* C3, amended: the factory calls of concurrently running requests run one
\* after the other (create_service has no await), so at most one instance is
\* ever built and validated for the provider name, every request that obtains
\* an instance obtains that one, and no constructor runs after the successful
\* one; a caller whose construction fails leaves the next caller to run the
\* constructor again.
C3_OneInstanceAmongConcurrent ==
    /\ Cardinality({i \in 1..Len(heap) : heap[i].validated}) <= 1
    /\ \A i \in 1..Len(heap) : heap[i].validated => i = Len(heap)
    /\ \A a \in Reqs : reqs[a].svc # 0 =>
          /\ reqs[a].svc \in 1..Len(heap)
          /\ heap[reqs[a].svc].validated
    /\ \A a, b \in Reqs : reqs[a].svc # 0 /\ reqs[b].svc # 0 => reqs[a].svc = reqs[b].svc

\* C3 witness: two requests were waiting on the uncached name together; the
\* first factory call built the instance and the second received the same one
\* without running the constructor.
C3_Witness ==
    \E a, b \in Reqs :
        /\ a # b
        /\ reqs[a].ran
        /\ reqs[a].svc # 0
        /\ reqs[b].early
        /\ ~reqs[b].ran
        /\ reqs[b].svc = reqs[a].svc


\* Keyword signals of the classification policy.
RateWords == {<<"rate", "limit">>, <<"quota">>}
KeyWords == {<<"api", "key">>, <<"authentication">>}
PermissionWords == {<<"permission">>, <<"forbidden">>}

\* The lower-cased message e contains one of the keywords.
Mentions(e, keywords) == \E k \in keywords : Contains(Lower(e), k)

\* The class C5 states for a transport failure with message e.
C5_StatedClass(e) ==
    IF Mentions(e, RateWords) THEN "AIRateLimitError"
    ELSE IF Mentions(e, KeyWords) THEN "AIConfigurationError"
    ELSE "AIProviderError"

\* The class the amended C5 states for a transport failure with message e.
C5_AmendedClass(e) ==
    IF Mentions(e, RateWords) THEN "AIRateLimitError"
    ELSE IF Mentions(e, KeyWords) THEN "AIConfigurationError"
    ELSE IF Mentions(e, PermissionWords) THEN "AIConfigurationError"
    ELSE "AIProviderError"

\* C5 as stated: a transport failure during chat or chat_stream is raised as
\* AIRateLimitError when its lower-cased message contains "rate limit" or
\* "quota", else as AIConfigurationError when it contains "api key" or
\* "authentication", and as AIProviderError in every other case.
C5_AsStated ==
    /\ (chatOut.called /\ ~transport.ok) =>
          chatOut.raised = C5_StatedClass(transport.err)
    /\ (streamOut.called /\ ~transport.ok) =>
          streamOut.raised = C5_StatedClass(transport.err)

\* C5, amended: as stated, except that a message containing neither a
\* rate-limit nor a key/authentication keyword but containing "permission" or
\* "forbidden" is raised as AIConfigurationError; only the remaining messages
\* are raised as AIProviderError.
C5_Classification ==
    /\ (chatOut.called /\ ~transport.ok) =>
          chatOut.raised = C5_AmendedClass(transport.err)
    /\ (streamOut.called /\ ~transport.ok) =>
          streamOut.raised = C5_AmendedClass(transport.err)

\* C5 witness: chat and chat_stream both met a failure whose message has a
\* capitalised rate-limit keyword next to a permission keyword, and both
\* raised AIRateLimitError.
C5_Witness ==
    /\ chatOut.called /\ streamOut.called
    /\ ~transport.ok
    /\ transport.err = <<"Forbidden", "quota">>
    /\ chatOut.raised = "AIRateLimitError"
    /\ streamOut.raised = "AIRateLimitError"

\* C8: when the transport answers successfully, the fragments chat_stream
\* yields, concatenated in order, are the string chat returns for the same
\* answer.
C8_StreamReconstructsChat ==
    (chatOut.called /\ streamOut.called /\ transport.ok) =>
        /\ chatOut.raised = None
        /\ streamOut.raised = None
        /\ Join(streamOut.frags) = chatOut.value

\* C8 witness: both calls were made on an answer that arrives in an empty and
\* a non-empty chunk, so that chat_stream skipped a chunk.
C8_Witness ==
    /\ chatOut.called /\ streamOut.called /\ transport.ok
    /\ Len(transport.chunks) = 2
    /\ Len(streamOut.frags) = 1
    /\ chatOut.value # <<>>

\* The conversation satisfies the request schema.
ValidConversation == ValidChatRequest(conv)

\* C9 as stated: for a valid conversation, when the transport call returns
\* successfully, chat returns a non-empty string.
C9_ChatNonEmpty ==
    (chatOut.called /\ transport.ok /\ ValidConversation) =>
        /\ chatOut.raised = None
        /\ chatOut.value # <<>>


\* Request slots holding a request of the given endpoint.
OnEndpoint(endpoint) == {r \in Reqs : reqs[r].endpoint = endpoint}

\* C6: a POST /api/v1/chat request on which the factory or the provider
\* failed is answered with exactly one status, determined by the class of the
\* failure: 429 for AIRateLimitError, 500 for AIConfigurationError, 502 for
\* AIProviderError, 500 for any other AIServiceError or other exception.
C6_ChatErrorStatus ==
    \A r \in OnEndpoint("chat") :
        reqs[r].raised # None =>
            /\ reqs[r].pc = "done"
            /\ reqs[r].content = <<>>
            /\ reqs[r].raised = "AIRateLimitError" => reqs[r].status = 429
            /\ reqs[r].raised = "AIConfigurationError" => reqs[r].status = 500
            /\ reqs[r].raised = "AIProviderError" => reqs[r].status = 502
            /\ reqs[r].raised \in {"AIServiceError", "Exception"} =>
                  reqs[r].status = 500

\* C6 witness: the provider failed with a rate-limit error on a chat request
\* and the request was answered 429.
C6_Witness ==
    \E r \in OnEndpoint("chat") :
        /\ reqs[r].svc # 0
        /\ reqs[r].raised = "AIRateLimitError"
        /\ reqs[r].status = 429

\* The events of stream request r: one data event per fragment produced, in
\* order, then one error event exactly when the provider or factory failed;
\* an error event is the last event and the stream has ended.
C7_Shape(r) ==
    LET events == reqs[r].events
        frags == reqs[r].frags
        failed == reqs[r].raised # None
    IN  /\ Len(events) = Len(frags) + (IF failed THEN 1 ELSE 0)
        /\ \A i \in 1..Len(frags) :
              events[i] = [event |-> "data", data |-> frags[i]]
        /\ failed => /\ events[Len(events)].event = "error"
                     /\ reqs[r].pc = "done"

\* While stream request r is being served, the events delivered so far stay
\* delivered: events only grow at the end.
C7_Kept(r) ==
    (reqs[r].endpoint = "stream" /\ reqs'[r].endpoint = "stream") =>
        /\ Len(reqs'[r].events) >= Len(reqs[r].events)
        /\ SubSeq(reqs'[r].events, 1, Len(reqs[r].events)) = reqs[r].events
        /\ reqs[r].pc = "done" => reqs'[r].events = reqs[r].events

\* C7: on POST /api/v1/chat/stream, when the provider fails after k fragments
\* the caller has received those k fragments as data events in their order,
\* followed by exactly one error event, and the stream has ended; no data
\* event follows an error event and no delivered event is ever taken back.
C7_StreamErrorDelivery ==
    /\ [](\A r \in OnEndpoint("stream") : C7_Shape(r))
    /\ [][\A r \in Reqs : C7_Kept(r)]_vars

\* C7 witness: the provider failed after two fragments; the caller has two
\* data events and one error event.
C7_Witness ==
    \E r \in OnEndpoint("stream") :
        /\ reqs[r].pc = "done"
        /\ reqs[r].raised # None
        /\ Len(reqs[r].frags) = 2
        /\ reqs[r].frags[1] # reqs[r].frags[2]
        /\ Len(reqs[r].events) = 3

\* The body has a message whose role is none of system, user, assistant.
HasUnknownRole(body) == \E i \in 1..Len(body) : body[i].role \notin KnownRoles

\* Requests received that carry a message with an unknown role.
WithUnknownRole == {r \in Reqs : reqs[r].pc # "idle" /\ HasUnknownRole(reqs[r].body)}

ConfiguredSecrets ==
    {settings.api_key[i] : i \in 1..Len(settings.api_key)} \ {",", " "}

\* Requests received on the two chat endpoints.
ChatRequests == {r \in OnEndpoint("chat") \cup OnEndpoint("stream") : reqs[r].pc # "idle"}

\* C11: on POST /api/v1/chat and POST /api/v1/chat/stream a request without
\* the X-API-Key header is refused with 401, a request whose header value is
\* none of the configured secrets is refused with 403, and a request whose
\* header value is one of the configured secrets is not refused by
\* authentication (its status is neither 401 nor 403).
C11_Authentication ==
    \A r \in ChatRequests :
        LET header == reqs[r].header IN
        /\ header = <<>> => reqs[r].pc = "done" /\ reqs[r].status = 401
        /\ (header # <<>> /\ header[1] \notin ConfiguredSecrets) =>
              reqs[r].pc = "done" /\ reqs[r].status = 403
        /\ (header # <<>> /\ header[1] \in ConfiguredSecrets) =>
              reqs[r].status \notin {401, 403}

\* C11 witness: two secrets are configured and a stream request carrying the
\* second one was accepted.
C11_Witness ==
    \E r \in OnEndpoint("stream") :
        /\ Cardinality(ConfiguredSecrets) = 2
        /\ reqs[r].header = <<"k2">>
        /\ reqs[r].pc = "accepted"
        /\ reqs[r].status = 200

\* The messages array of the body is empty or longer than 50.
BadLength(body) == Len(body) = 0 \/ Len(body) > 50

\* C12: the arrival of a POST /api/v1/chat request whose messages array is
\* empty or has more than 50 items ends with the request rejected (422 by
\* schema validation, or 401/403 when authentication refuses it first), and
\* the step neither calls the factory (no constructor run, cache and
\* instances untouched) nor sends anything to a provider.
C12_BadLengthRejected ==
    [][ \A r \in Reqs :
          (reqs[r].pc = "idle" /\ reqs'[r].endpoint = "chat"
           /\ BadLength(reqs'[r].body))
          => /\ reqs'[r].pc = "done"
             /\ reqs'[r].status =
                   (IF reqs'[r].header = <<>> THEN 401
                    ELSE IF reqs'[r].header[1] \notin ConfiguredSecrets THEN 403
                    ELSE 422)
             /\ reqs'[r].svc = 0
             /\ reqs'[r].sent = <<>>
             /\ ~reqs'[r].ran
             /\ heap' = heap
             /\ instance_cache' = instance_cache ]_vars

\* C12 witness: an authenticated chat request with 51 messages was answered
\* 422 by a service whose provider works (an earlier request built it).
C12_Witness ==
    \E r \in OnEndpoint("chat") :
        /\ Len(reqs[r].body) = 51
        /\ reqs[r].header # <<>>
        /\ reqs[r].status = 422
        /\ instance_cache # <<>>


\* The step is a create_service call made right after a call of operation op.
CreateAfter(op) == lastCall.op = op /\ lastCall'.op = "create_service"

\* C13: after clear_cache the instance cache is empty; the create_service
\* call that follows it for a registered name runs the constructor again
\* and, when it returns, returns the instance that run constructed, built
\* and validated; no create_service call ever returns an instance
\* constructed before the last clear_cache.
C13_ClearThenReconstruct ==
    /\ [](lastCall.op = "clear_cache" => instance_cache = <<>>)
    /\ [](Returned => heap[lastCall.inst].live)
    /\ [][ (CreateAfter("clear_cache")
            /\ ResolveProvider(lastCall'.arg) \in list_providers)
           => /\ lastCall'.ran
              /\ Len(heap') = Len(heap) + 1
              /\ lastCall'.raised = None =>
                    /\ lastCall'.inst = Len(heap')
                    /\ heap'[lastCall'.inst].built
                    /\ heap'[lastCall'.inst].validated ]_vars

\* C13 witness: create_service returned a newly constructed instance for a
\* name whose earlier, validated instance was evicted by clear_cache.
C13_Witness ==
    /\ Returned
    /\ lastCall.ran
    /\ \E i \in 1..(lastCall.inst - 1) :
          /\ heap[i].name = heap[lastCall.inst].name
          /\ heap[i].validated
          /\ ~heap[i].live

\* C14: register_service can be called in every state; the call leaves
\* list_providers with the lower-cased name and every name it had, and
\* touches no instance; a create_service call that runs a constructor runs
\* the one registered for the name, which after a register_service for that
\* name is the class just registered.
C14_Register ==
    /\ [](ENABLED RegisterService)
    /\ [][ lastCall'.op = "register_service"
           => /\ LowerWord(lastCall'.arg) \in DOMAIN services'
              /\ DOMAIN services \subseteq DOMAIN services'
              /\ heap' = heap
              /\ instance_cache' = instance_cache ]_vars
    /\ [][ (lastCall'.op = "create_service" /\ Len(heap') > Len(heap))
           => heap'[Len(heap')].cls = services[ResolveProvider(lastCall'.arg)] ]_vars
    /\ [][ (CreateAfter("register_service")
            /\ ResolveProvider(lastCall'.arg) = LowerWord(lastCall.arg)
            /\ LowerWord(lastCall.arg) \notin DOMAIN instance_cache)
           => /\ lastCall'.ran
              /\ heap'[Len(heap')].cls = lastCall.cls ]_vars

\* C14 witness: the bundled name was registered again with another class
\* and create_service then constructed an instance of that class for it.
C14_Witness ==
    /\ lastCall.op = "create_service"
    /\ lastCall.ran
    /\ ResolveProvider(lastCall.arg) = "gemini"
    /\ heap[Len(heap)].cls = "MockService"
    /\ heap[Len(heap)].validated


\* C15: validate_configuration has two outcomes: it returns True, or it
\* raises AIConfigurationError, which it does exactly when the credential is
\* missing or is the placeholder or the client is not constructed; it never
\* returns False.
C15_ValidateTwoOutcomes ==
    validOut.called =>
        LET unusable == \/ settings.model_api_key \in {"", "test-model-key"}
                        \/ ~validOut.client
        IN  /\ validOut.value # "False"
            /\ unusable => validOut.raised = "AIConfigurationError"
                           /\ validOut.value = None
            /\ ~unusable => validOut.raised = None /\ validOut.value = "True"

\* C15 witness: validate_configuration raised AIConfigurationError on an
\* instance whose credential is usable and whose client is not constructed.
C15_Witness ==
    /\ validOut.called
    /\ settings.model_api_key = "real-key"
    /\ ~validOut.client
    /\ validOut.raised = "AIConfigurationError"


\* The service error categories: the classes the endpoints treat by name.
ServiceErrors ==
    {"AIRateLimitError", "AIConfigurationError", "AIProviderError", "AIServiceError"}

\* Requests on which an exception outside the service error categories
\* reached the endpoint.
Unclassified == {r \in ChatRequests : reqs[r].raised \notin ServiceErrors \cup {None}}

\* C17: when an exception that is none of the service error categories
\* reaches the chat or the stream endpoint, what the caller is shown is the
\* fixed text "Internal server error" (status 500 on chat, the one error
\* event on stream), whatever the exception's message: two runs that differ
\* only in that message show the caller the same thing.
C17_GenericInternalError ==
    \A r \in Unclassified :
        /\ reqs[r].pc = "done"
        /\ reqs[r].content = <<>>
        /\ reqs[r].endpoint = "chat" =>
              /\ reqs[r].status = 500
              /\ reqs[r].detail = <<"Internal server error">>
        /\ reqs[r].endpoint = "stream" =>
              /\ reqs[r].events # <<>>
              /\ reqs[r].events[Len(reqs[r].events)] =
                    [event |-> "error", data |-> <<"Internal server error">>]
              /\ \A i \in 1..(Len(reqs[r].events) - 1) :
                    reqs[r].events[i].event = "data"

\* C17 witness: a provider raised an exception outside the categories whose
\* message names an API key, and the chat caller was shown the fixed text.
C17_Witness ==
    \E r \in Unclassified :
        /\ reqs[r].endpoint = "chat"
        /\ reqs[r].msg = <<"API", "key">>
        /\ reqs[r].detail = <<"Internal server error">>


\* C18: GET /api/v1/health is answered 200 with status "healthy" whether
\* the X-API-Key header is missing, wrong or valid, and serving it neither
\* calls the factory nor a provider.
C18_HealthOpen ==
    /\ [](\A r \in OnEndpoint("health") :
            /\ reqs[r].pc = "done"
            /\ reqs[r].status = 200
            /\ reqs[r].content = <<"healthy">>
            /\ reqs[r].svc = 0
            /\ reqs[r].sent = <<>>
            /\ ~reqs[r].ran)
    /\ [][ \A r \in Reqs :
             (reqs[r].pc = "idle" /\ reqs'[r].endpoint = "health")
             => heap' = heap /\ instance_cache' = instance_cache ]_vars

\* C18 witness: a health request carrying a key that is not configured was
\* answered 200 "healthy".
C18_Witness ==
    \E r \in OnEndpoint("health") :
        /\ reqs[r].header # <<>>
        /\ reqs[r].header[1] \notin ConfiguredSecrets
        /\ reqs[r].status = 200
        /\ reqs[r].content = <<"healthy">>


\* The transport failed and both chat and chat_stream were called on it.
BothFailed == chatOut.called /\ streamOut.called /\ ~transport.ok

\* C19: a failure message with a rate-limit or quota keyword is raised as
\* AIRateLimitError even when it also has a key/authentication or a
\* permission/forbidden keyword; a message with "permission" or "forbidden"
\* and none of the rate-limit and key/authentication keywords is raised as
\* AIConfigurationError; chat and chat_stream raise the same class for the
\* same message.
C19_Precedence ==
    LET e == transport.err
        raisedBy == (IF chatOut.called THEN {chatOut.raised} ELSE {})
                    \cup (IF streamOut.called THEN {streamOut.raised} ELSE {})
    IN  /\ (~transport.ok /\ Mentions(e, RateWords)) =>
              raisedBy \subseteq {"AIRateLimitError"}
        /\ (~transport.ok /\ Mentions(e, PermissionWords)
            /\ ~Mentions(e, RateWords) /\ ~Mentions(e, KeyWords)) =>
              raisedBy \subseteq {"AIConfigurationError"}
        /\ BothFailed => chatOut.raised = streamOut.raised

\* C19 witness: a message with an authentication keyword before a quota
\* keyword was raised as AIRateLimitError by chat and by chat_stream.
C19_Witness ==
    /\ BothFailed
    /\ transport.err = <<"Authentication", "quota">>
    /\ chatOut.raised = "AIRateLimitError"
    /\ streamOut.raised = "AIRateLimitError"

\* C20: every failure that leaves chat or chat_stream is one of
\* AIRateLimitError, AIConfigurationError, AIProviderError and
\* AIServiceError, whatever message the transport's exception has and whether
\* it comes before the first fragment or after some fragments; a failing
\* transport always makes the call fail with one of them.
C20_OnlyServiceErrors ==
    /\ chatOut.called =>
          /\ chatOut.raised \in ServiceErrors \cup {None}
          /\ ~transport.ok => chatOut.raised \in ServiceErrors
    /\ streamOut.called =>
          /\ streamOut.raised \in ServiceErrors \cup {None}
          /\ ~transport.ok => streamOut.raised \in ServiceErrors

\* C20 witness: the transport failed between fragments with a message that
\* has no keyword; chat_stream raised AIProviderError after one fragment and
\* chat raised it too.
C20_Witness ==
    /\ BothFailed
    /\ transport.err = <<"error">>
    /\ Len(streamOut.frags) = 1
    /\ streamOut.raised = "AIProviderError"
    /\ chatOut.raised = "AIProviderError"


\* The chunk carries text.
HasText(c) == Len(c) > 0

\* C21: every fragment chat_stream yields is non-empty, and the fragments
\* are the non-empty chunks of the transport, each once and in the
\* transport's order, up to the end of the transport's sequence (or to the
\* failure that ends it).
C21_FragmentsAreNonEmptyChunks ==
    streamOut.called =>
        /\ \A i \in 1..Len(streamOut.frags) : streamOut.frags[i] # <<>>
        /\ streamOut.frags = SelectSeq(transport.chunks, HasText)
        /\ transport.ok => streamOut.raised = None

\* C21 witness: the transport produced an empty chunk and then a chunk of
\* text; chat_stream yielded the text alone.
C21_Witness ==
    /\ streamOut.called
    /\ transport.ok
    /\ transport.chunks = <<<<>>, <<"b">>>>
    /\ streamOut.frags = <<<<"b">>>>

\* The structured type C22 states for a role.
C22_TypeOf(role) ==
    CASE role = "system" -> "SystemMessage"
      [] role = "user" -> "HumanMessage"
      [] role = "assistant" -> "AIMessage"
      [] OTHER -> None

\* C22: _convert_messages returns as many elements as the conversation has
\* messages; the i-th carries the content of the i-th message and, when that
\* message's role is system, user or assistant, has the type fixed by the
\* role.
C22_ConvertOneToOne ==
    converted.called =>
        /\ Len(converted.value) = Len(conv)
        /\ \A i \in 1..Len(conv) :
              /\ converted.value[i].content = conv[i].content
              /\ conv[i].role \in {"system", "user", "assistant"} =>
                    converted.value[i].type = C22_TypeOf(conv[i].role)

\* C22 witness: a conversation of an assistant message followed by a system
\* message with another content was converted.
C22_Witness ==
    /\ converted.called
    /\ Len(conv) = 2
    /\ conv[1].role = "assistant" /\ conv[2].role = "system"
    /\ conv[1].content # conv[2].content
    /\ converted.value[1].type = "AIMessage"
    /\ converted.value[2].type = "SystemMessage"


\* The header fails authentication: it is missing or carries a value that
\* is none of the configured secrets.
FailsAuth(header) == header = <<>> \/ header[1] \notin ConfiguredSecrets

\* C23: a POST /api/v1/chat or /api/v1/chat/stream request that fails
\* authentication is answered 401 or 403 on arrival; its arrival leaves the
\* factory's cache and instances as they were, and the request never obtains
\* a provider instance, sends it nothing and receives no event.
C23_AuthFailureTouchesNothing ==
    /\ [](\A r \in ChatRequests :
            FailsAuth(reqs[r].header) =>
                /\ reqs[r].pc = "done"
                /\ reqs[r].status \in {401, 403}
                /\ reqs[r].svc = 0
                /\ ~reqs[r].ran
                /\ reqs[r].sent = <<>>
                /\ reqs[r].events = <<>>
                /\ reqs[r].content = <<>>)
    /\ [][ \A r \in Reqs :
             (reqs[r].pc = "idle" /\ reqs'[r].endpoint \in {"chat", "stream"}
              /\ FailsAuth(reqs'[r].header))
             => /\ heap' = heap
                /\ instance_cache' = instance_cache
                /\ services' = services ]_vars

\* C23 witness: a well-formed stream request with a key that is not
\* configured was answered 403 by a service whose provider instance an
\* earlier request had built and cached.
C23_Witness ==
    \E r \in OnEndpoint("stream") :
        /\ reqs[r].header = <<"k3">>
        /\ reqs[r].body = PlainBody
        /\ reqs[r].status = 403
        /\ instance_cache # <<>>


\* The step is a create_service call that raises.
CreateFails == lastCall'.op = "create_service" /\ lastCall'.raised # None

\* The last call was a create_service whose constructor or validation
\* failed, and the step is a create_service call for the same name.
RetryAfterFailure ==
    /\ CreateAfter("create_service")
    /\ lastCall.ran /\ lastCall.raised # None
    /\ ResolveProvider(lastCall'.arg) = ResolveProvider(lastCall.arg)

\* C24: a create_service call that raises leaves the instance cache and the
\* registry as they were; the create_service call made next for the same
\* name after a failed construction or validation runs the constructor
\* again, and when that construction and validation succeed it returns the
\* new instance and caches it.
C24_FailureNotRemembered ==
    [][ /\ CreateFails =>
             /\ instance_cache' = instance_cache
             /\ services' = services
        /\ RetryAfterFailure =>
             /\ lastCall'.ran
             /\ Len(heap') = Len(heap) + 1
             /\ (heap'[Len(heap')].built /\ heap'[Len(heap')].validated) =>
                   /\ lastCall'.raised = None
                   /\ lastCall'.inst = Len(heap')
                   /\ instance_cache'[ResolveProvider(lastCall'.arg)] = Len(heap') ]_vars

\* C24 witness: validation failed on a constructed instance, nothing was
\* cached, and the next call for the name constructed a second instance and
\* returned it.
C24_Witness ==
    /\ Returned
    /\ lastCall.ran
    /\ lastCall.inst = 2
    /\ heap[1].name = heap[2].name
    /\ heap[1].live /\ heap[1].built /\ ~heap[1].validated

\* The step is a create_service call for a name that has a cached instance.
CreateCached ==
    /\ lastCall'.op = "create_service"
    /\ ResolveProvider(lastCall'.arg) \in DOMAIN instance_cache

\* C25: register_service leaves the instance cache as it was, and a
\* create_service call for a name that has a cached instance returns that
\* instance without running a constructor, whatever class is registered for
\* the name by then; a class registered later is constructed only by a call
\* that finds no cached instance, as after clear_cache.
C25_ReRegisterAfterCache ==
    [][ /\ lastCall'.op = "register_service" =>
             instance_cache' = instance_cache
        /\ CreateCached =>
             /\ lastCall'.raised = None
             /\ lastCall'.inst = instance_cache[ResolveProvider(lastCall'.arg)]
             /\ ~lastCall'.ran
             /\ heap' = heap
             /\ instance_cache' = instance_cache
        /\ (CreateAfter("clear_cache") /\ lastCall'.raised = None) =>
             heap'[lastCall'.inst].cls = services[ResolveProvider(lastCall'.arg)] ]_vars

\* C25 witness: the name was registered again with another class while its
\* instance was cached, and create_service returned the cached instance of
\* the class registered before.
C25_Witness ==
    /\ Returned
    /\ ~lastCall.ran
    /\ heap[lastCall.inst].cls = "GeminiService"
    /\ services[ResolveProvider(lastCall.arg)] = "MockService"

====
